---- MODULE Spec2Model ----
(***************************************************************************)
(* Model of the BASIL step planner and step runner of oxasl                *)
(* (src/oxasl/basil.py): basil(), basil_fit(), basil_steps(), _add_prior() *)
(* and the two Step kinds.                                                 *)
(*                                                                         *)
(* Python values are tagged tuples, so that values of different Python     *)
(* types can live in one dictionary and be compared.  A dictionary is a    *)
(* function whose domain is its set of keys.                               *)
(***************************************************************************)
EXTENDS Integers, Sequences, FiniteSets, TLC

VARIABLES
    wsp,          \* the workspace: its attributes, None when unset
    requested,    \* the workspace as the caller handed it over
    prefit,       \* the prefit argument of basil
    pc,           \* where the call is: start, fit, planned, done, error
    chain,        \* the chain being fitted: none, init, main
    steps,        \* the plan of each chain, as returned by basil_steps
    idx,          \* the number of steps of the chain that have returned
    prev_result,  \* prev_result of basil_fit
    out,          \* the output workspace of each chain
    err,          \* the exception that ended the call
    nmvn,         \* the number of posteriors created so far
    log,          \* the calls of step.run made so far, in order
    imgdata,      \* the voxel arrays of the images
    paired        \* model_paired: the call of basil it is at, the output of
                  \* its first call and the output it hands on

vars == <<wsp, requested, prefit, pc, chain, steps, idx, prev_result, out, err, nmvn,
          log, imgdata, paired>>

(***************************************************************************)
(* Bounds of the model                                                     *)
(***************************************************************************)
\* largest number of inversion times of the input data
MaxTis == 2
\* largest repeat count of a timepoint of the input data
MaxRpt == 2
\* largest number of voxels of an image
MaxVoxels == 2

(***************************************************************************)
(* Python values                                                           *)
(***************************************************************************)
None == <<"None">>
B(b) == <<"bool", b>>
Num(n) == <<"num", n>>
Str(s) == <<"str", s>>
Img(name) == <<"img", name>>
Mvn(i) == <<"mvn", i>>
Data(d) == <<"asldata", d>>

True == B(TRUE)
False == B(FALSE)

\* Python truth value of v, as tested by "if v:" and "not v"
Truthy(v) == v \notin {None, False, Num(0), Str("")}

(***************************************************************************)
(* Dictionaries                                                            *)
(***************************************************************************)
EmptyDict == [k \in {} |-> None]

\* d[k] = v
Put(d, k, v) == [x \in DOMAIN d \cup {k} |-> IF x = k THEN v ELSE d[x]]

\* d.update(e)
Update(d, e) == [x \in DOMAIN d \cup DOMAIN e |-> IF x \in DOMAIN e THEN e[x] ELSE d[x]]

\* del d[k], for a key that is present
Del(d, k) == [x \in DOMAIN d \ {k} |-> d[x]]

\* d.get(k): None for an absent key
Get(d, k) == IF k \in DOMAIN d THEN d[k] ELSE None

(***************************************************************************)
(* Input data (AslImage)                                                   *)
(***************************************************************************)
\* the i-th inversion time, in hundredths of a second
TiOf(i) == 100 + 40 * i

\* an AslImage of label-control pairs with the repeat counts rpts, one per inversion time
AslData(name, rpts) == [name |-> name, iaf |-> "tc", tis |-> [i \in DOMAIN rpts |-> TiOf(i)], rpts |-> rpts]

\* wsp.asldata.ntis
ntis(asldata) == Len(asldata.tis)

\* max(wsp.asldata.rpts)
MaxOf(s) == CHOOSE m \in {s[i] : i \in DOMAIN s} : \A i \in DOMAIN s : s[i] <= m

\* wsp.asldata_mean_across_repeats: the mean over the repeats of every timepoint
asldata_mean_across_repeats(asldata) ==
    Data([name |-> "mean", iaf |-> asldata[2].iaf, tis |-> asldata[2].tis,
          rpts |-> [i \in DOMAIN asldata[2].rpts |-> 1]])

(***************************************************************************)
(* Steps                                                                   *)
(***************************************************************************)
\* Step.__init__: the step holds its own copy of the options
Step(kind, options, desc) == [kind |-> kind, options |-> options, desc |-> desc]

FabberStep(options, desc) == Step("FabberStep", options, desc)

PvcInitStep(options, desc) == Step("PvcInitStep", options, desc)

\* the local variable step_desc before its first assignment
Unbound == <<"unbound">>

(***************************************************************************)
(* _add_prior                                                              *)
(***************************************************************************)
PriorKey(prior_idx) == "PSP_byname" \o ToString(prior_idx)

\* kwargs is the dictionary of the keyword arguments (type, image); the
\* result holds the updated options and the returned next index
_add_prior(options, prior_idx, param, kwargs) ==
    LET base == Put(options, PriorKey(prior_idx), Str(param))
        extra == [k \in {PriorKey(prior_idx) \o "_" \o a : a \in DOMAIN kwargs} |->
                    kwargs[CHOOSE a \in DOMAIN kwargs : k = PriorKey(prior_idx) \o "_" \o a]]
    IN [options |-> Update(base, extra), next |-> prior_idx + 1]

(***************************************************************************)
(* basil_steps                                                             *)
(***************************************************************************)
NoError == "none"
ErrNoData == "ValueError: Input ASL data is None"
ErrOneMap == "ValueError: Only one partial volume map (GM / WM) was supplied for PV correctioN"
ErrArtOnly == "ValueError: ERROR: PV correction is not compatible with --artonly option (there is no tissue component)"
ErrNoSteps == "ValueError: No steps were generated - no parameters were set to be inferred"
ErrUnbound == "UnboundLocalError: local variable 'step_desc' referenced before assignment"
ErrKey == "KeyError"

\* asldata.diff(): the label-control differenced data, same timepoints and repeats
diff(asldata) == [asldata EXCEPT !.iaf = "diff"]

\* Default Fabber options for VB runs
default_options(asldata) ==
    [k \in {"data", "model", "disp", "exch", "method", "noise", "allow-bad-voxels",
            "max-iterations", "convergence", "max-trials", "save-mean", "save-mvn", "save-std"} |->
        CASE k = "data" -> Data(asldata)
          [] k = "model" -> Str("aslrest")
          [] k = "disp" -> Str("none")
          [] k = "exch" -> Str("mix")
          [] k = "method" -> Str("vb")
          [] k = "noise" -> Str("white")
          [] k = "allow-bad-voxels" -> True
          [] k = "max-iterations" -> Num(20)
          [] k = "convergence" -> Str("trialmode")
          [] k = "max-trials" -> Num(10)
          [] k = "save-mean" -> True
          [] k = "save-mvn" -> True
          [] k = "save-std" -> True]

\* timepoint options whose inversion times depend on the repeat counts
ti_options_shifted(asldata) ==
    [k \in {"ti" \o ToString(i) : i \in DOMAIN asldata.tis} \cup
           {"rpt" \o ToString(i) : i \in DOMAIN asldata.tis} |->
        IF \E i \in DOMAIN asldata.tis : k = "ti" \o ToString(i)
        THEN LET i == CHOOSE i \in DOMAIN asldata.tis : k = "ti" \o ToString(i)
             IN Num(asldata.tis[i] + asldata.rpts[i])
        ELSE Num(asldata.rpts[CHOOSE i \in DOMAIN asldata.tis : k = "rpt" \o ToString(i)])]

\* options["ti%i"] and options["rpt%i"] of every timepoint
ti_options(asldata) ==
    [k \in {"ti" \o ToString(i) : i \in DOMAIN asldata.tis} \cup
           {"rpt" \o ToString(i) : i \in DOMAIN asldata.tis} |->
        IF \E i \in DOMAIN asldata.tis : k = "ti" \o ToString(i)
        THEN Num(asldata.tis[CHOOSE i \in DOMAIN asldata.tis : k = "ti" \o ToString(i)])
        ELSE Num(asldata.rpts[CHOOSE i \in DOMAIN asldata.tis : k = "rpt" \o ToString(i)])]

\* Additional optional workspace arguments: those that are not None
WspAttrs == {"t1", "t1b", "bat", "tau", "casl", "slicedt", "sliceband", "FA", "mask"}

wsp_options(w) == [k \in {a \in WspAttrs : w[a] # None} |-> w[k]]

\* Options for final spatial step
default_options_svb ==
    [k \in {"method", "param-spatial-priors", "convergence", "max-iterations"} |->
        CASE k = "method" -> Str("spatialvb")
          [] k = "param-spatial-priors" -> Str("N+")
          [] k = "convergence" -> Str("maxiters")
          [] k = "max-iterations" -> Num(20)]

prior_type_spatial == "M"
prior_type_mvs == "A"

\* keyword arguments type=t of _add_prior
TypeOnly(t) == [k \in {"type"} |-> Str(t)]

\* keyword arguments type="I", image=img of _add_prior
TypeImage(img) == [k \in {"type", "image"} |-> IF k = "type" THEN Str("I") ELSE img]

\* an append that forgets the single-step mode
AppendAlways(w, st) ==
    [st EXCEPT !.steps = Append(@, FabberStep(st.options, st.step_desc))]

\* steps.append(FabberStep(options, step_desc)) unless wsp.onestep
AppendUnlessOnestep(w, st) ==
    IF Truthy(w.onestep) THEN st
    ELSE [st EXCEPT !.steps = Append(@, FabberStep(st.options, st.step_desc))]

\* Set general parameter inference and inclusion
inclusion_options(w, options) ==
    LET o1 == IF Truthy(w.infertiss) THEN Put(options, "inctiss", True) ELSE options
        o2 == IF Truthy(w.inferbat) THEN Put(Put(o1, "incbat", True), "inferbat", True) ELSE o1
        o3 == IF Truthy(w.inferart) THEN Put(o2, "incart", True) ELSE o2
        o4 == IF Truthy(w.inferpc) THEN Put(o3, "incpc", True) ELSE o3
        o5 == IF Truthy(w.infertau) THEN Put(o4, "inctau", True) ELSE o4
        o6 == IF Truthy(w.infert1) THEN Put(o5, "inct1", True) ELSE o5
        o7 == IF Truthy(w.pvcorr) THEN Put(o6, "incpve", True) ELSE o6
    IN o7

\* TISSUE MODULE
tissue_module(w, st) ==
    IF Truthy(w.infertiss)
    THEN LET components == st.components \o " Tissue "
             s1 == [st EXCEPT !.components = components,
                              !.options = Put(st.options, "infertiss", True),
                              !.step_desc = Str("VB - " \o components)]
             s2 == AppendUnlessOnestep(w, s1)
             p == _add_prior(s2.options_svb, s2.spriors, "ftiss", TypeOnly(prior_type_spatial))
         IN [s2 EXCEPT !.options_svb = p.options, !.spriors = p.next]
    ELSE st

\* ARTERIAL MODULE
arterial_module(w, st) ==
    IF Truthy(w.inferart)
    THEN LET components == st.components \o " Arterial "
             s1 == [st EXCEPT !.components = components,
                              !.options = Put(st.options, "inferart", True),
                              !.step_desc = Str("VB - " \o components)]
             s2 == AppendUnlessOnestep(w, s1)
             p == _add_prior(s2.options_svb, s2.spriors, "fblood", TypeOnly(prior_type_mvs))
         IN [s2 EXCEPT !.options_svb = p.options, !.spriors = p.next]
    ELSE st

\* a bolus duration module that enables the inference in the step that follows
bolus_duration_module_nostep(w, st) ==
    IF Truthy(w.infertau)
    THEN [st EXCEPT !.components = @ \o " Bolus duration ",
                    !.options = Put(@, "infertau", True)]
    ELSE st

\* BOLUS DURATION MODULE
bolus_duration_module(w, st) ==
    IF Truthy(w.infertau)
    THEN LET components == st.components \o " Bolus duration "
             s1 == [st EXCEPT !.components = components,
                              !.options = Put(st.options, "infertau", True),
                              !.step_desc = Str("VB - " \o components)]
         IN AppendUnlessOnestep(w, s1)
    ELSE st

\* MODEL EXTENSIONS MODULE
model_extensions_module(w, st, inferdisp, inferexch) ==
    IF inferdisp \/ inferexch \/ Truthy(w.inferpc)
    THEN LET s1 == IF inferdisp
                   THEN [st EXCEPT !.components = st.components \o " dispersion",
                                   !.options = Put(st.options, "inferdisp", True)]
                   ELSE st
             s2 == IF inferexch
                   THEN [s1 EXCEPT !.components = s1.components \o " exchange",
                                   !.options = Put(s1.options, "inferexch", True)]
                   ELSE s1
             s3 == IF Truthy(w.inferpc)
                   THEN [s2 EXCEPT !.components = s2.components \o " pre-capiliary",
                                   !.options = Put(s2.options, "inferpc", True)]
                   ELSE s2
             s4 == [s3 EXCEPT !.step_desc = Str("VB - " \o s3.components)]
         IN AppendUnlessOnestep(w, s4)
    ELSE st

\* a T1 module that stops inferring the arrival time
t1_module_dropsbat(w, st) ==
    IF Truthy(w.infert1)
    THEN LET components == st.components \o " T1 "
             s1 == [st EXCEPT !.components = components,
                              !.options = Del(Put(st.options, "infert1", True), "inferbat"),
                              !.step_desc = Str("VB - " \o components)]
         IN AppendUnlessOnestep(w, s1)
    ELSE st

\* T1 MODULE
t1_module(w, st) ==
    IF Truthy(w.infert1)
    THEN LET components == st.components \o " T1 "
             s1 == [st EXCEPT !.components = components,
                              !.options = Put(st.options, "infert1", True),
                              !.step_desc = Str("VB - " \o components)]
         IN AppendUnlessOnestep(w, s1)
    ELSE st

\* a PVC initialisation that is appended to an empty plan as well
append_pvc_init_always(w, st, asldata) ==
    [st EXCEPT !.steps = Append(@, PvcInitStep(
        [k \in {"data", "mask", "pgm", "pwm"} |->
            CASE k = "data" -> Data(asldata)
              [] k = "mask" -> w.mask
              [] k = "pgm" -> w.pgm
              [] k = "pwm" -> w.pwm], Str("PVC initialisation")))]

\* lines 307-309: Add initialisation step for PV correction - ONLY if we
\* have something to init from
append_pvc_init(w, st, asldata) ==
    IF st.steps # <<>>
    THEN [st EXCEPT !.steps = Append(@, PvcInitStep(
            [k \in {"data", "mask", "pgm", "pwm"} |->
                CASE k = "data" -> Data(asldata)
                  [] k = "mask" -> w.mask
                  [] k = "pgm" -> w.pgm
                  [] k = "pwm" -> w.pwm], Str("PVC initialisation")))]
    ELSE st

\* PV CORRECTION MODULE
pv_correction_module(w, st, pvcorr, asldata) ==
    IF pvcorr
    THEN LET o1 == Put(st.options, "pvcorr", True)
             p1 == _add_prior(o1, st.spriors, "pvgm", TypeImage(w.pgm))
             p2 == _add_prior(p1.options, p1.next, "pvwm", TypeImage(w.pwm))
             p3 == _add_prior(p2.options, p2.next, "fwm", TypeOnly("M"))
         IN append_pvc_init(w, [st EXCEPT !.components = @ \o " PVE",
                                          !.options = p3.options,
                                          !.spriors = p3.next], asldata)
    ELSE st

\* a spatial module that leaves the trial count of the VB steps in place
spatial_module_keeptrials(w, st) ==
    IF Truthy(w.spatial)
    THEN AppendUnlessOnestep(w, [st EXCEPT !.step_desc = Str("Spatial VB - " \o st.components),
                                           !.options = Update(@, st.options_svb)])
    ELSE st

\* SPATIAL MODULE; the workspace w is the one already updated by the
\* partial volume check.  The result carries the error of a failed del.
spatial_module(w, st) ==
    IF Truthy(w.spatial)
    THEN LET o1 == Update(st.options, st.options_svb)
             s1 == [st EXCEPT !.step_desc = Str("Spatial VB - " \o st.components)]
         IN IF "max-trials" \notin DOMAIN o1
            THEN [s1 EXCEPT !.options = o1, !.err = ErrKey]
            ELSE AppendUnlessOnestep(w, [s1 EXCEPT !.options = Del(o1, "max-trials")])
    ELSE st

\* a single-step option that plans its step from the options of the first
\* step of the multi-step plan
single_step_option_early(w, st) ==
    IF st.err # NoError THEN st
    ELSE IF Truthy(w.onestep)
    THEN IF st.step_desc = Unbound
         THEN [st EXCEPT !.err = ErrUnbound]
         ELSE [st EXCEPT !.steps = Append(st.steps,
                  FabberStep([k \in DOMAIN st.options \ {"inferart", "infertau", "infert1"} |->
                                 st.options[k]], st.step_desc))]
    ELSE st

\* SINGLE-STEP OPTION and the final check of the plan
single_step_option(w, st) ==
    IF st.err # NoError THEN st
    ELSE IF Truthy(w.onestep)
    THEN IF st.step_desc = Unbound
         THEN [st EXCEPT !.err = ErrUnbound]
         ELSE [st EXCEPT !.steps = Append(st.steps, FabberStep(st.options, st.step_desc))]
    ELSE st

\* The result of a call: the error raised (or NoError), the plan returned
\* (empty when an error was raised) and the workspace as the call leaves it
Raise(e, w) == [err |-> e, steps |-> <<>>, wsp |-> w]

\* a partial volume check that keeps the iteration cap of the spatial step
partial_volume_setup_cap20(w, options_svb) ==
    LET pvcorr == w.pgm # None \/ w.pwm # None
        w1 == IF pvcorr THEN [w EXCEPT !.spatial = True] ELSE w
    IN [err |-> IF pvcorr /\ (w.pgm = None \/ w.pwm = None) THEN ErrOneMap
                ELSE IF pvcorr /\ ~Truthy(w.infertiss) THEN ErrArtOnly ELSE NoError,
        wsp |-> w1, options_svb |-> options_svb, pvcorr |-> pvcorr]

\* a partial volume check that accepts a run without tissue component
partial_volume_setup_notissue(w, options_svb) ==
    LET pvcorr == w.pgm # None \/ w.pwm # None
        w1 == IF pvcorr THEN [w EXCEPT !.spatial = True] ELSE w
    IN [err |-> IF pvcorr /\ (w.pgm = None \/ w.pwm = None) THEN ErrOneMap ELSE NoError,
        wsp |-> w1,
        options_svb |-> IF pvcorr THEN Put(options_svb, "max-iterations", Num(200)) ELSE options_svb,
        pvcorr |-> pvcorr]

\* Partial volume correction, lines 197-207: the error raised, the workspace
\* and the spatial options as the check leaves them, and the local pvcorr
partial_volume_setup(w, options_svb) ==
    LET pvcorr == w.pgm # None \/ w.pwm # None
    IN IF pvcorr /\ (w.pgm = None \/ w.pwm = None)
       THEN [err |-> ErrOneMap, wsp |-> w, options_svb |-> options_svb, pvcorr |-> pvcorr]
       ELSE LET \* Need a spatial step with more iterations for the PV correction
                w1 == IF pvcorr THEN [w EXCEPT !.spatial = True] ELSE w
                svb == IF pvcorr THEN Put(options_svb, "max-iterations", Num(200)) ELSE options_svb
            IN [err |-> IF pvcorr /\ ~Truthy(w1.infertiss) THEN ErrArtOnly ELSE NoError,
                wsp |-> w1, options_svb |-> svb, pvcorr |-> pvcorr]

\* lines 152-179: the options before any step is planned
initial_options(w, asldata, kwargs) ==
    Update(Update(Update(default_options(asldata), ti_options(asldata)), wsp_options(w)), kwargs)

\* lines 229-232: we are being supplied with an initial MVN
initmvn_option(w, options) ==
    IF Truthy(w.initmvn) THEN Put(options, "continue-from-mvn", w.initmvn) ELSE options

\* lines 234-236: T1 image prior; the planner's state before the modules
\* a T1 image prior that does not advance the prior index
t1_image_prior_nocount(w, options, options_svb) ==
    LET st == [options |-> options, options_svb |-> options_svb, spriors |-> 1,
               steps |-> <<>>, components |-> "", step_desc |-> Unbound, err |-> NoError]
        p == _add_prior(st.options, st.spriors, "T_1", TypeImage(w.t1im))
    IN IF Truthy(w.t1im)
       THEN [st EXCEPT !.options = p.options]
       ELSE st

t1_image_prior(w, options, options_svb) ==
    LET st == [options |-> options, options_svb |-> options_svb, spriors |-> 1,
               steps |-> <<>>, components |-> "", step_desc |-> Unbound, err |-> NoError]
        p == _add_prior(st.options, st.spriors, "T_1", TypeImage(w.t1im))
    IN IF Truthy(w.t1im)
       THEN [st EXCEPT !.options = p.options, !.spriors = p.next]
       ELSE st

\* lines 238-322: the modules in program order, each working on the state
\* its predecessor left
plan_modules(w, st0, inferdisp, inferexch, pvcorr, asldata) ==
    CHOOSE st \in
        {single_step_option(w, st7) : st7 \in
        {spatial_module(w, st6) : st6 \in
        {pv_correction_module(w, st5, pvcorr, asldata) : st5 \in
        {t1_module(w, st4) : st4 \in
        {model_extensions_module(w, st3, inferdisp, inferexch) : st3 \in
        {bolus_duration_module(w, st2) : st2 \in
        {arterial_module(w, st1) : st1 \in
        {tissue_module(w, st0)}}}}}}}} : TRUE

\* a return of the plan without the check for an empty plan
returned_steps_unchecked(w, st) ==
    IF st.err # NoError THEN Raise(st.err, w)
    ELSE [err |-> NoError, steps |-> st.steps, wsp |-> w]

\* lines 324-327: the plan, or the error of an empty plan
returned_steps(w, st) ==
    IF st.err # NoError THEN Raise(st.err, w)
    ELSE IF st.steps = <<>> THEN Raise(ErrNoSteps, w)
    ELSE [err |-> NoError, steps |-> st.steps, wsp |-> w]

\* basil_steps once the partial volume check pv has passed, from the
\* options options0 of lines 152-179
steps_after_setup(pv, options0, asldata) ==
    CHOOSE r \in
        {returned_steps(pv.wsp, st) : st \in
        {plan_modules(pv.wsp, st0, options0["disp"] # Str("none"), options0["exch"] # Str("mix"),
                      pv.pvcorr, asldata) : st0 \in
        {t1_image_prior(pv.wsp, initmvn_option(pv.wsp, inclusion_options(pv.wsp, options0)),
                        pv.options_svb)}}} : TRUE

basil_steps(w, asldata, kwargs) ==
    IF ~Truthy(asldata) THEN Raise(ErrNoData, w)
    ELSE CHOOSE r \in
            {IF pv.err # NoError THEN Raise(pv.err, pv.wsp)
             ELSE CHOOSE r2 \in
                     {steps_after_setup(pv, options0, diff(asldata[2])) : options0 \in
                         {initial_options(w, diff(asldata[2]), kwargs)}} : TRUE
             : pv \in {partial_volume_setup(w, default_options_svb)}} : TRUE

(***************************************************************************)
(* The external collaborators: inference engine and mvntool                *)
(***************************************************************************)
CONTINUE == "continue-from-mvn"

\* The mapping returned by a successful run of the inference engine that
\* creates the posterior number n: the final posterior and the converged
\* mean map of each parameter included in the model
fabber(options, n) ==
    LET maps == {m \in {"mean_ftiss", "mean_fblood", "mean_delttiss"} :
                    \/ m = "mean_ftiss" /\ Truthy(Get(options, "inctiss"))
                    \/ m = "mean_fblood" /\ Truthy(Get(options, "incart"))
                    \/ m = "mean_delttiss" /\ Truthy(Get(options, "incbat"))}
    IN [k \in {"finalMVN"} \cup maps |->
           IF k = "finalMVN" THEN Mvn(n) ELSE Img(k \o "@" \o ToString(n))]

(***************************************************************************)
(* Voxel arithmetic: a voxel value is a rational <<numerator, denominator>>  *)
(* with a positive denominator, an array is a sequence of voxel values      *)
(***************************************************************************)
RECURSIVE Gcd(_, _)
Gcd(m, n) == IF n = 0 THEN m ELSE Gcd(n, m % n)
Abs(n) == IF n < 0 THEN 0 - n ELSE n
\* n / d in lowest terms
Rat(n, d) == <<n \div Gcd(Abs(n), d), d \div Gcd(Abs(n), d)>>
RMul(a, b) == Rat(a[1] * b[1], a[2] * b[2])
RSub(a, b) == Rat(a[1] * b[2] - b[1] * a[2], a[2] * b[2])
\* a / b for b > 0
RDiv(a, b) == Rat(a[1] * b[2], a[2] * b[1])
RLess(a, b) == a[1] * b[2] < b[1] * a[2]
REq(a, b) == a[1] * b[2] = b[1] * a[2]

\* image.data: the array of an image; every map of perfusion the engine
\* returns has the array imgs["mean_ftiss"]
DataOf(imgs, img) == IF img[2] \in DOMAIN imgs THEN imgs[img[2]] ELSE imgs["mean_ftiss"]

\* the posterior number n that mvntool derives from the posterior base by
\* the writes made, in order
MvnWritten(n, base, writes) == <<"mvn", n, base, writes>>
MvnBase(mvn) == IF Len(mvn) = 4 THEN mvn[3] ELSE mvn
MvnWrites(mvn) == IF Len(mvn) = 4 THEN mvn[4] ELSE <<>>

\* mvntool(mvn, param, mask=mask, write=True, valim=valim, var=var): a new
\* posterior, number n, in which the mean of param is valim and its variance
\* var at the voxels of the mask
mvntool(mvn, param, mask, valim, var, n) ==
    MvnWritten(n, MvnBase(mvn),
               Append(MvnWrites(mvn),
                      [param |-> param,
                       mean |-> [v \in DOMAIN valim |-> IF mask[v] = 1 THEN valim[v] ELSE None],
                       var |-> var]))

(***************************************************************************)
(* Step.run                                                                *)
(***************************************************************************)
ErrFabber == "FabberError"
ErrPrevOutput == "TypeError/KeyError: previous output has no mean_ftiss or finalMVN"

\* a FabberStep.run that submits the options as planned
FabberStep_options_asplanned(step, prev_output) == step

\* FabberStep.run up to the call of the engine: the step with the options it submits
FabberStep_options(step, prev_output) ==
    IF prev_output # None
    THEN [step EXCEPT !.options = Put(step.options, CONTINUE, prev_output[2]["finalMVN"])]
    ELSE step

wm_cbf_ratio == Rat(4, 10)
pgm_floor == Rat(2, 10)
pvc_init_var == Rat(1, 10)

\* a grey matter fraction used as it is
clip_pgm_none(a) == a

\* temp_pgm[temp_pgm < 0.2] = 0.2
clip_pgm(a) == [v \in DOMAIN a |-> IF RLess(a[v], pgm_floor) THEN pgm_floor ELSE a[v]]

\* gmcbf_init of a voxel: (prev_ftiss - (prev_ftiss * wm_cbf_ratio) * pwm) / temp_pgm
gmcbf_init(prev_ftiss, pwm, temp_pgm) ==
    RDiv(RSub(prev_ftiss, RMul(RMul(prev_ftiss, wm_cbf_ratio), pwm)), temp_pgm)

\* PvcInitStep.run: the result, with the posterior updated twice by mvntool,
\* and the arrays of the images as the call leaves them (temp_pgm is the
\* array of the pgm image, clipped in place)
PvcInitStep_run(step, prev_output, n, imgs) ==
    LET mask == DataOf(imgs, step.options["mask"])
        temp_pgm == clip_pgm(DataOf(imgs, step.options["pgm"]))
        prev_ftiss == DataOf(imgs, prev_output[2]["mean_ftiss"])
        pwm == DataOf(imgs, step.options["pwm"])
        gm == [v \in DOMAIN prev_ftiss |-> gmcbf_init(prev_ftiss[v], pwm[v], temp_pgm[v])]
        wm == [v \in DOMAIN gm |-> RMul(gm[v], wm_cbf_ratio)]
        mvn1 == mvntool(prev_output[2]["finalMVN"], "ftiss", mask, gm, pvc_init_var, n)
        mvn2 == mvntool(mvn1, "fwm", mask, wm, pvc_init_var, n)
    IN [result |-> [k \in {"finalMVN"} |-> mvn2],
        imgs |-> [imgs EXCEPT ![step.options["pgm"][2]] = temp_pgm]]

\* can PvcInitStep.run read what it needs from prev_output
PvcInitStep_ok(prev_output) ==
    /\ prev_output # None
    /\ {"mean_ftiss", "finalMVN"} \subseteq DOMAIN prev_output[2]

(***************************************************************************)
(* basil                                                                   *)
(***************************************************************************)
Dict(d) == <<"dict", d>>

\* a single TI setup that leaves the requested flags alone
single_ti_setup_keep(w) == w

\* basil, lines 58-63: Single or Multi TI setup
single_ti_setup(w) ==
    IF ntis(w.asldata[2]) = 1
    THEN [w EXCEPT !.inferart = False, !.infertau = False]
    ELSE w

\* basil, lines 58-87: single TI setup and resolution of the defaults
\* (numbers are in hundredths)
\* a resolution of the defaults that tests the values for being false
resolve_defaults_falsy(w) ==
    LET t1_default == IF Truthy(w.wp) THEN Num(165) ELSE Num(130)
        bat_default == IF Truthy(w.wp) THEN Num(0)
                       ELSE IF Truthy(w.casl) THEN Num(130) ELSE Num(70)
    IN [single_ti_setup(w) EXCEPT
          !.t1 = IF ~Truthy(@) THEN t1_default ELSE @,
          !.t1b = IF ~Truthy(@) THEN Num(165) ELSE @,
          !.bat = IF ~Truthy(@) THEN bat_default ELSE @,
          !.tau = IF ~Truthy(@) THEN Num(180) ELSE @,
          !.infertiss = IF @ = None THEN True ELSE @,
          !.infertau = IF @ = None THEN B(~Truthy(w.casl)) ELSE @]

resolve_defaults(w) ==
    LET t1_default == IF Truthy(w.wp) THEN Num(165) ELSE Num(130)
        bat_default == IF Truthy(w.wp) THEN Num(0)
                       ELSE IF Truthy(w.casl) THEN Num(130) ELSE Num(70)
    IN [single_ti_setup(w) EXCEPT
          !.t1 = IF @ = None THEN t1_default ELSE @,
          !.t1b = IF @ = None THEN Num(165) ELSE @,
          !.bat = IF @ = None THEN bat_default ELSE @,
          !.tau = IF @ = None THEN Num(180) ELSE @,
          !.infertiss = IF @ = None THEN True ELSE @,
          !.infertau = IF @ = None THEN B(~Truthy(w.casl)) ELSE @]

\* Pick up extra BASIL options
extra_options(w) == IF w.basil_options = None THEN EmptyDict ELSE w.basil_options[2]

\* a test for the initial fit that ignores the repeat counts
does_prefit_norpts(p, w) == p

\* does basil run the initial fit on the mean data
does_prefit(p, w) == p /\ MaxOf(w.asldata[2].rpts) > 1

NoSteps == [c \in {"init", "main"} |-> <<>>]
NoOutput == [c \in {"init", "main"} |-> [step |-> <<>>, finalstep |-> 0]]

\* an output of a step that keeps the posterior only
step_output_mvnonly(result) == [key \in {"finalMVN"} |-> result[key]]

\* basil_fit lines 129-130: the attributes set on the output of a step
step_output(result) == [key \in DOMAIN result |-> result[key]]

\* an entry of the log: the call of run of step i of chain c
Ran(c, i, result) == [chain |-> c, step |-> i, raised |-> FALSE, result |-> result]
Raised(c, i) == [chain |-> c, step |-> i, raised |-> TRUE, result |-> None]

\* basil_fit up to its loop: plan the chain c on the data asldata
StartFit(c, w, asldata) ==
    \E plan \in {basil_steps(w, asldata, extra_options(w))} :
       /\ wsp' = plan.wsp
       /\ chain' = c
       /\ err' = plan.err
       /\ pc' = IF plan.err = NoError THEN "fit" ELSE "error"
       /\ steps' = [steps EXCEPT ![c] = plan.steps]
       /\ idx' = 0
       /\ prev_result' = None

\* basil, lines 54-98 and 101-104, and basil_fit up to its loop
Basil ==
    /\ pc = "start"
    /\ \E w \in {resolve_defaults(wsp)} :
          IF does_prefit(prefit, w)
          THEN StartFit("init", w, asldata_mean_across_repeats(w.asldata))
          ELSE StartFit("main", w, w.asldata)
    /\ UNCHANGED <<paired, requested, prefit, out, nmvn, log, imgdata>>

\* an iteration in which the steps of a chain share one configuration, so
\* that the posterior to continue from shows in all of them
RunStep_shared ==
    /\ pc = "fit"
    /\ idx < Len(steps[chain])
    /\ LET step == steps[chain][idx + 1]
           n == nmvn + 1
       IN /\ step.kind = "PvcInitStep" => PvcInitStep_ok(prev_result)
          /\ \E ran \in {IF step.kind = "FabberStep"
                          THEN FabberStep_options(step, prev_result) ELSE step} :
             \E r \in {IF step.kind = "FabberStep"
                        THEN [result |-> fabber(ran.options, n), imgs |-> imgdata]
                        ELSE PvcInitStep_run(step, prev_result, n, imgdata)} :
                /\ steps' = [steps EXCEPT ![chain] =
                                [i \in DOMAIN @ |->
                                    IF @[i].kind = "FabberStep" /\ step.kind = "FabberStep"
                                    THEN FabberStep_options(@[i], prev_result) ELSE @[i]]]
                /\ out' = [out EXCEPT ![chain].step = Append(@, step_output(r.result))]
                /\ prev_result' = Dict(r.result)
                /\ log' = Append(log, Ran(chain, idx + 1, Dict(r.result)))
                /\ imgdata' = r.imgs
          /\ nmvn' = n
          /\ idx' = idx + 1
    /\ UNCHANGED <<wsp, paired, requested, prefit, pc, chain, err>>

\* One iteration of the loop of basil_fit, running a step that succeeds
RunStep ==
    /\ pc = "fit"
    /\ idx < Len(steps[chain])
    /\ LET step == steps[chain][idx + 1]
           n == nmvn + 1
       IN /\ step.kind = "PvcInitStep" => PvcInitStep_ok(prev_result)
          /\ \E ran \in {IF step.kind = "FabberStep"
                          THEN FabberStep_options(step, prev_result) ELSE step} :
             \E r \in {IF step.kind = "FabberStep"
                        THEN [result |-> fabber(ran.options, n), imgs |-> imgdata]
                        ELSE PvcInitStep_run(step, prev_result, n, imgdata)} :
                /\ steps' = [steps EXCEPT ![chain][idx + 1] = ran]
                /\ out' = [out EXCEPT ![chain].step = Append(@, step_output(r.result))]
                /\ prev_result' = Dict(r.result)
                /\ log' = Append(log, Ran(chain, idx + 1, Dict(r.result)))
                /\ imgdata' = r.imgs
          /\ nmvn' = n
          /\ idx' = idx + 1
    /\ UNCHANGED <<wsp, paired, requested, prefit, pc, chain, err>>

\* a loop that notes the failure of a step and goes on with the next step
StepFails_goes_on ==
    /\ pc = "fit"
    /\ idx < Len(steps[chain])
    /\ steps[chain][idx + 1].kind = "FabberStep"
    /\ steps' = [steps EXCEPT ![chain][idx + 1] = FabberStep_options(@, prev_result)]
    /\ err' = ErrFabber
    /\ idx' = idx + 1
    /\ out' = [out EXCEPT ![chain].step = Append(@, EmptyDict)]
    /\ log' = Append(log, Raised(chain, idx + 1))
    /\ UNCHANGED <<wsp, paired, requested, prefit, pc, chain, prev_result, nmvn, imgdata>>

\* One iteration of the loop of basil_fit, running a step that raises: the
\* engine fails, or the PVC initialisation cannot read its input
StepFails ==
    /\ pc = "fit"
    /\ idx < Len(steps[chain])
    /\ LET step == steps[chain][idx + 1]
       IN IF step.kind = "FabberStep"
          THEN /\ steps' = [steps EXCEPT ![chain][idx + 1] = FabberStep_options(step, prev_result)]
               /\ err' = ErrFabber
          ELSE /\ ~PvcInitStep_ok(prev_result)
               /\ steps' = steps
               /\ err' = ErrPrevOutput
    /\ pc' = "error"
    /\ log' = Append(log, Raised(chain, idx + 1))
    /\ UNCHANGED <<wsp, paired, requested, prefit, chain, idx, prev_result, out, nmvn, imgdata>>

\* an end of the initial fit that fits the main chain to the averaged data
FinishFit_mean ==
    /\ pc = "fit"
    /\ idx = Len(steps[chain])
    /\ out' = [out EXCEPT ![chain].finalstep = idx]
    /\ IF chain = "init"
       THEN \E w \in {[wsp EXCEPT !.initmvn = out[chain].step[idx]["finalMVN"]]} :
               StartFit("main", w, asldata_mean_across_repeats(w.asldata))
       ELSE /\ pc' = "done"
            /\ UNCHANGED <<wsp, chain, steps, idx, prev_result, err>>
    /\ UNCHANGED <<paired, requested, prefit, nmvn, log, imgdata>>

\* The end of basil_fit (line 132); after the initial fit, basil lines 99-104
\* and basil_fit on the full data up to its loop
FinishFit ==
    /\ pc = "fit"
    /\ idx = Len(steps[chain])
    /\ out' = [out EXCEPT ![chain].finalstep = idx]
    /\ IF chain = "init"
       THEN \E w \in {[wsp EXCEPT !.initmvn = out[chain].step[idx]["finalMVN"]]} :
               StartFit("main", w, w.asldata)
       ELSE /\ pc' = "done"
            /\ UNCHANGED <<wsp, chain, steps, idx, prev_result, err>>
    /\ UNCHANGED <<paired, requested, prefit, nmvn, log, imgdata>>

(***************************************************************************)
(* Initial states                                                          *)
(***************************************************************************)
Flag == {True, False}
OptFlag == {None, True, False}

\* the repeat counts of the input data: up to MaxTis timepoints, at most one
\* of them repeated, up to MaxRpt times
RptsChoices ==
    {[i \in 1..n |-> IF i = j THEN r ELSE 1] : n \in 1..MaxTis, j \in 1..MaxTis, r \in 1..MaxRpt}

\* the posterior supplied by the caller
CallerMvn == Mvn(0)

\* a workspace with nothing set
EmptyWsp ==
    [asldata |-> None,
     wp |-> None, casl |-> None, t1 |-> None, t1b |-> None, bat |-> None, tau |-> None,
     slicedt |-> None, sliceband |-> None, FA |-> None, mask |-> None,
     infertiss |-> None, inferbat |-> None, inferart |-> None, infertau |-> None,
     infert1 |-> None, inferpc |-> None, spatial |-> None, onestep |-> None,
     t1im |-> None, pgm |-> None, pwm |-> None, pvcorr |-> None, initmvn |-> None,
     basil_options |-> None,
     fast |-> None, artonly |-> None, optfile |-> None,
     max_iterations |-> None, max_trials |-> None]

\* the free-form engine options of the caller
OverrideChoices ==
    {Dict(EmptyDict), Dict([k \in {"max-iterations"} |-> Num(50)]),
     Dict([k \in {"disp"} |-> Str("gamma")])}

\* the arrays of a one-voxel case: the mask, the grey and white matter
\* fractions and the perfusion the engine estimates
OneVoxel ==
    [mask |-> <<1>>, pgm |-> <<Rat(60, 100)>>, pwm |-> <<Rat(30, 100)>>,
     mean_ftiss |-> <<Rat(50, 1)>>]

\* basil is not called by model_paired
NotPaired == [run |-> 0, basil |-> None, native |-> None]

InitCommon ==
    /\ paired = NotPaired
    /\ pc = "start"
    /\ chain = "none"
    /\ steps = NoSteps
    /\ idx = 0
    /\ prev_result = None
    /\ out = NoOutput
    /\ err = NoError
    /\ nmvn = 0
    /\ log = <<>>

Init ==
    /\ InitCommon
    /\ prefit \in BOOLEAN
    /\ \E rpts \in RptsChoices, casl \in Flag, infertiss, infertau \in OptFlag,
          inferart, spatial, onestep, pv \in Flag,
          initmvn \in {None, CallerMvn}, opts \in OverrideChoices :
          wsp = [EmptyWsp EXCEPT
                   !.asldata = Data(AslData("asldata", rpts)),
                   !.mask = Img("mask"),
                   !.casl = casl, !.infertiss = infertiss, !.infertau = infertau,
                   !.inferbat = True, !.inferart = inferart,
                   !.spatial = spatial, !.onestep = onestep,
                   !.pgm = IF pv = True THEN Img("pgm") ELSE None,
                   !.pwm = IF pv = True THEN Img("pwm") ELSE None,
                   !.initmvn = initmvn,
                   !.basil_options = opts]
    /\ requested = wsp
    /\ imgdata = OneVoxel

Next == Basil \/ RunStep \/ StepFails \/ FinishFit

Spec == Init /\ [][Next]_vars

(***************************************************************************)
(* main: the command line application                                      *)
(***************************************************************************)
\* A line of text is a sequence of characters.
Whitespace == {" ", "\t", "\n"}

\* str.lstrip(chars), str.rstrip(chars) and str.strip()
RECURSIVE lstrip(_, _)
lstrip(text, chars) ==
    IF text # <<>> /\ text[1] \in chars THEN lstrip(Tail(text), chars) ELSE text
RECURSIVE rstrip(_, _)
rstrip(text, chars) ==
    IF text # <<>> /\ text[Len(text)] \in chars
    THEN rstrip(SubSeq(text, 1, Len(text) - 1), chars) ELSE text
strip(text) == lstrip(rstrip(text, Whitespace), Whitespace)

\* str.split(sep, 1): the text cut at the first separator, if there is one
split1(text, sep) ==
    IF \E i \in DOMAIN text : text[i] = sep
    THEN LET i == CHOOSE i \in DOMAIN text :
                     text[i] = sep /\ \A j \in 1..(i - 1) : text[j] # sep
         IN <<SubSeq(text, 1, i - 1), SubSeq(text, i + 1, Len(text))>>
    ELSE <<text>>

\* str.replace(old, new) for single characters
replace(text, old, new) == [i \in DOMAIN text |-> IF text[i] = old THEN new ELSE text[i]]

\* the string of a sequence of characters
RECURSIVE Join(_)
Join(text) == IF text = <<>> THEN "" ELSE text[1] \o Join(Tail(text))

\* lines 489-496: the options that one line of the options file adds
parse_line(basil_options, line) ==
    LET keyval == split1(lstrip(rstrip(strip(line), {"\n"}), {"-"}), "=")
        key == Join(replace(strip(keyval[1]), "-", "_"))
    IN IF key # ""
       THEN IF Len(keyval) = 1
            THEN Put(basil_options, key, True)
            ELSE Put(basil_options, key, Str(Join(strip(keyval[2]))))
       ELSE basil_options

\* lines 486-496: wsp.basil_options after the options file has been read
RECURSIVE parse_lines(_, _)
parse_lines(basil_options, lines) ==
    IF lines = <<>> THEN basil_options
    ELSE parse_lines(parse_line(basil_options, Head(lines)), Tail(lines))

\* an options file with the lines given
File(lines) == <<"file", lines>>

read_optfile(w) ==
    IF w.optfile # None THEN parse_lines(EmptyDict, w.optfile[2]) ELSE EmptyDict

ErrFast == "ValueError: Not a valid option for fast"

\* lines 472-484: iterations, trials and the single step of the fast option;
\* the empty sequence when the value is not a valid one
fast_settings(fast) ==
    IF fast \in {None, Num(0)} THEN <<Num(20), Num(10), False>>
    ELSE IF fast = Num(1) THEN <<Num(5), Num(2), False>>
    ELSE IF fast = Num(2) THEN <<Num(10), Num(5), True>>
    ELSE <<>>

\* lines 468-471: --artonly
artonly_setup(w) ==
    IF Truthy(w.artonly) THEN [w EXCEPT !.infertiss = False, !.inferart = True] ELSE w

\* main, lines 465-496, up to its call of basil
Main ==
    /\ pc = "main"
    /\ \E settings \in {fast_settings(wsp.fast)} :
          IF settings = <<>>
          THEN /\ pc' = "error"
               /\ err' = ErrFast
               /\ wsp' = artonly_setup(wsp)
          ELSE /\ pc' = "start"
               /\ err' = err
               /\ wsp' = [artonly_setup(wsp) EXCEPT
                            !.max_iterations = settings[1],
                            !.max_trials = settings[2],
                            !.onestep = settings[3],
                            !.basil_options = Dict(read_optfile(wsp))]
    /\ UNCHANGED <<paired, requested, prefit, chain, steps, idx, prev_result, out, nmvn, log, imgdata>>

\* the lines of the options files
LineMaxIterations ==
    <<"-", "-", "m", "a", "x", "-", "i", "t", "e", "r", "a", "t", "i", "o", "n", "s", "=", "5", "0", "\n">>
LineDisp == <<"-", "-", "d", "i", "s", "p", "=", "g", "a", "m", "m", "a", "\n">>
LineExch == <<" ", "-", "-", "e", "x", "c", "h", " ", "=", " ", "2", "c", "p", "t", " ", "\n">>
LineBare == <<"-", "-", "a", "l", "l", "o", "w", "-", "b", "a", "d", "-", "v", "o", "x", "e", "l", "s", "\n">>
LineEmpty == <<"\n">>

\* the options files of the model
OptfileChoices ==
    {None, File(<<LineMaxIterations>>), File(<<LineDisp, LineEmpty, LineExch>>),
     File(<<LineBare, LineDisp>>)}

\* the values of --fast
FastChoices == {Num(0), Num(1), Num(2), Num(3)}

\* the workspace of line 465, with the defaults of the command line options
InitMain ==
    /\ paired = NotPaired
    /\ pc = "main"
    /\ chain = "none"
    /\ steps = NoSteps
    /\ idx = 0
    /\ prev_result = None
    /\ out = NoOutput
    /\ err = NoError
    /\ nmvn = 0
    /\ log = <<>>
    /\ prefit = TRUE
    /\ \E rpts \in RptsChoices, fast \in FastChoices, artonly, inferart, spatial \in Flag,
          optfile \in OptfileChoices :
          wsp = [EmptyWsp EXCEPT
                   !.asldata = Data(AslData("asldata", rpts)),
                   !.mask = Img("mask"),
                   !.infertau = False, !.inferart = inferart, !.inferpc = False,
                   !.infert1 = False, !.artonly = artonly, !.inferbat = True,
                   !.spatial = spatial, !.fast = fast, !.optfile = optfile]
    /\ requested = wsp
    /\ imgdata = OneVoxel

NextMain == Main \/ Basil \/ RunStep \/ StepFails \/ FinishFit

SpecMain == InitMain /\ [][NextMain]_vars

(***************************************************************************)
(* model_paired (src/oxasl/oxford_asl.py): BASIL on the data, then again    *)
(* with partial volume correction when wsp.pvcorr is set                   *)
(***************************************************************************)
\* the partial volume maps in the space of the data that model_paired
\* hands to its second call of basil
PairedMaps ==
    [k \in {"pwm", "pgm"} |-> IF k = "pwm" THEN Img("wm_pv_asl") ELSE Img("gm_pv_asl")]

\* lines 266-284: the first call has returned and wsp.pvcorr is set; the
\* output of the first call stays under 'basil' and basil is called again
\* with prefit=False
PairedPvcorr ==
    /\ pc = "done"
    /\ paired.run = 1
    /\ Truthy(wsp.pvcorr)
    /\ paired' = [run |-> 2, basil |-> [steps |-> steps, out |-> out, log |-> log],
                  native |-> None]
    /\ wsp' = [wsp EXCEPT !.basil_options = Dict(PairedMaps)]
    /\ prefit' = FALSE
    /\ pc' = "start"
    /\ chain' = "none"
    /\ steps' = NoSteps
    /\ idx' = 0
    /\ prev_result' = None
    /\ out' = NoOutput
    /\ log' = <<>>
    /\ UNCHANGED <<requested, err, nmvn, imgdata>>

\* lines 285-287: the output handed on is that of the last call of basil
PairedOutput ==
    /\ pc = "done"
    /\ paired.run = 2 \/ (paired.run = 1 /\ ~Truthy(wsp.pvcorr))
    /\ paired' = [paired EXCEPT !.native = IF paired.run = 2 THEN "basil_pvcorr" ELSE "basil"]
    /\ pc' = "end"
    /\ UNCHANGED <<wsp, requested, prefit, chain, steps, idx, prev_result, out, err, nmvn,
                   log, imgdata>>

\* line 262: model_paired about to call basil(wsp, output_wsp=wsp.sub("basil"))
InitPaired ==
    /\ paired = [run |-> 1, basil |-> None, native |-> None]
    /\ pc = "start"
    /\ chain = "none"
    /\ steps = NoSteps
    /\ idx = 0
    /\ prev_result = None
    /\ out = NoOutput
    /\ err = NoError
    /\ nmvn = 0
    /\ log = <<>>
    /\ prefit = TRUE
    /\ \E rpts \in RptsChoices, pvcorr, inferart, spatial, pv \in Flag,
          initmvn \in {None, CallerMvn} :
          wsp = [EmptyWsp EXCEPT
                   !.asldata = Data(AslData("asldata", rpts)),
                   !.mask = Img("mask"),
                   !.inferbat = True, !.inferart = inferart, !.spatial = spatial,
                   !.onestep = False, !.pvcorr = pvcorr,
                   !.pgm = IF pv = True THEN Img("pgm") ELSE None,
                   !.pwm = IF pv = True THEN Img("pwm") ELSE None,
                   !.initmvn = initmvn]
    /\ requested = wsp
    /\ imgdata = OneVoxel

NextPaired == Basil \/ RunStep \/ StepFails \/ FinishFit \/ PairedPvcorr \/ PairedOutput

SpecPaired == InitPaired /\ [][NextPaired]_vars

(***************************************************************************)
(* basil called with and without the acquisition parameters set            *)
(***************************************************************************)
\* a parameter left unset, or one of the values the caller sets
OptNum(values) == {None} \cup {Num(v) : v \in values}

InitDefaults ==
    /\ InitCommon
    /\ prefit \in BOOLEAN
    /\ \E rpts \in RptsChoices, wp, casl \in OptFlag, pv \in Flag,
          t1 \in OptNum({120}), t1b \in OptNum({160}), bat \in OptNum({0, 100}),
          tau \in OptNum({140}) :
          wsp = [EmptyWsp EXCEPT
                   !.asldata = Data(AslData("asldata", rpts)),
                   !.mask = Img("mask"),
                   !.wp = wp, !.casl = casl,
                   !.t1 = t1, !.t1b = t1b, !.bat = bat, !.tau = tau,
                   !.inferbat = True, !.inferart = False, !.spatial = False,
                   !.onestep = False,
                   !.pgm = IF pv = True THEN Img("pgm") ELSE None,
                   !.pwm = IF pv = True THEN Img("pwm") ELSE None,
                   !.basil_options = Dict(EmptyDict)]
    /\ requested = wsp
    /\ imgdata = OneVoxel

SpecDefaults == InitDefaults /\ [][Next]_vars

(***************************************************************************)
(* basil called for partial volume correction on images of a few voxels    *)
(***************************************************************************)
\* the arrays of nv voxels, one value per voxel from the set given
Arrays(nv, values) == [1..nv -> values]

InitPvc ==
    /\ InitCommon
    /\ prefit = FALSE
    /\ wsp = [EmptyWsp EXCEPT
                !.asldata = Data(AslData("asldata", <<1>>)),
                !.mask = Img("mask"),
                !.inferbat = True, !.inferart = False, !.spatial = False, !.onestep = False,
                !.pgm = Img("pgm"), !.pwm = Img("pwm"),
                !.basil_options = Dict(EmptyDict)]
    /\ requested = wsp
    /\ \E nv \in 1..MaxVoxels :
          \E mask \in Arrays(nv, {0, 1}),
             pgm \in Arrays(nv, {Rat(60, 100), Rat(20, 100), Rat(10, 100)}),
             pwm \in Arrays(nv, {Rat(30, 100), Rat(90, 100)}),
             ftiss \in Arrays(nv, {Rat(50, 1), Rat(0, 1)}) :
             imgdata = [mask |-> mask, pgm |-> pgm, pwm |-> pwm, mean_ftiss |-> ftiss]

SpecPvc == InitPvc /\ [][Next]_vars

(***************************************************************************)
(* The planner on its own: basil_steps called on a workspace               *)
(***************************************************************************)
\* a call of basil_steps(wsp, wsp.asldata, **basil_options)
Plan ==
    /\ pc = "start"
    /\ \E plan \in {basil_steps(wsp, wsp.asldata, extra_options(wsp))} :
          /\ wsp' = plan.wsp
          /\ err' = plan.err
          /\ pc' = IF plan.err = NoError THEN "planned" ELSE "error"
          /\ steps' = [steps EXCEPT !["main"] = plan.steps]
    /\ chain' = "main"
    /\ UNCHANGED <<paired, requested, prefit, idx, prev_result, out, nmvn, log, imgdata>>

\* the free-form engine options of the caller of the planner
PlanOverrideChoices ==
    {Dict(d) : d \in {EmptyDict,
                      [k \in {"max-iterations"} |-> Num(50)],
                      [k \in {"disp"} |-> Str("gamma")],
                      [k \in {"exch"} |-> Str("2cpt")],
                      [k \in {"disp", "exch", "max-trials"} |->
                          CASE k = "disp" -> Str("gamma")
                            [] k = "exch" -> Str("2cpt")
                            [] k = "max-trials" -> Num(3)]}}

\* an image, or None
OptImg(name) == {None, Img(name)}

InitPlan ==
    /\ InitCommon
    /\ prefit = FALSE
    /\ \/ wsp = EmptyWsp
       \/ \E infertiss \in OptFlag,
             inferbat, inferart, infertau, infert1, inferpc, spatial, onestep, pvcorr \in Flag,
             t1im \in OptImg("t1im"), pgm \in OptImg("pgm"), pwm \in OptImg("pwm"),
             initmvn \in {None, CallerMvn}, opts \in PlanOverrideChoices :
             wsp = [EmptyWsp EXCEPT
                      !.asldata = Data(AslData("asldata", [i \in 1..MaxTis |-> MaxRpt])),
                      !.mask = Img("mask"),
                      !.infertiss = infertiss, !.inferbat = inferbat, !.inferart = inferart,
                      !.infertau = infertau, !.infert1 = infert1, !.inferpc = inferpc,
                      !.spatial = spatial, !.onestep = onestep, !.pvcorr = pvcorr,
                      !.t1im = t1im, !.pgm = pgm, !.pwm = pwm,
                      !.initmvn = initmvn,
                      !.basil_options = opts]
    /\ requested = wsp
    /\ imgdata = OneVoxel

NextPlan == Plan

SpecPlan == InitPlan /\ [][NextPlan]_vars

(***************************************************************************)
(* Properties of the step runner and of basil                              *)
(***************************************************************************)
Chains == {"init", "main"}

\* the number of steps of chain c that have submitted their configuration or
\* run: those that returned, and the one whose engine call failed
Submitted(c) ==
    Len(out[c].step) + IF pc = "error" /\ err = ErrFabber /\ chain = c THEN 1 ELSE 0

\* every posterior returned by a step, except that of step j of chain c
OtherPosteriors(c, j) ==
    {out[c2].step[i]["finalMVN"] : <<c2, i>> \in
        {x \in Chains \X (1..(Len(out["init"].step) + Len(out["main"].step))) :
            x[2] <= Len(out[x[1]].step) /\ x # <<c, j>>}}

\* C1: in a chain, the configuration that step k > 1 submits to the inference
\* engine holds under continue-from-mvn the finalMVN returned by step k-1,
\* and neither the posterior of another step nor the workspace's initmvn.
C1_StepContinuesFromPredecessor ==
    \A c \in Chains : \A k \in 2..Submitted(c) :
        steps[c][k].kind = "FabberStep" =>
            /\ CONTINUE \in DOMAIN steps[c][k].options
            /\ steps[c][k].options[CONTINUE] = out[c].step[k - 1]["finalMVN"]
            /\ steps[c][k].options[CONTINUE] \notin OtherPosteriors(c, k - 1)
            /\ steps[c][k].options[CONTINUE] # wsp.initmvn

\* a chain started from a supplied posterior whose third step, an engine
\* step, has run
C1_Witness ==
    /\ wsp.initmvn # None
    /\ \E c \in Chains :
          /\ Len(out[c].step) >= 3
          /\ steps[c][3].kind = "FabberStep"
          /\ steps[c][2].kind = "FabberStep"

\* the final posterior of the finished pre-fit chain
PrefitPosterior == out["init"].step[Len(out["init"].step)]["finalMVN"]

\* C2: with prefit requested, if some timepoint is repeated the pre-fit chain
\* runs on the repeat-averaged data before the main chain and the first step
\* of the main chain continues from the final posterior of the last pre-fit
\* step; if no timepoint is repeated no pre-fit chain runs.
C2_PrefitSeedsMainRun ==
    prefit /\ pc # "start" =>
        IF MaxOf(requested.asldata[2].rpts) > 1
        THEN /\ chain \in Chains
             /\ err \notin {ErrFabber, ErrPrevOutput} /\ pc = "error" => steps["init"] = <<>>
             /\ \A i \in DOMAIN steps["init"] :
                   /\ steps["init"][i].options["data"][2].name = "mean"
                   /\ steps["init"][i].kind = "FabberStep" =>
                         \A t \in DOMAIN requested.asldata[2].rpts :
                            steps["init"][i].options["rpt" \o ToString(t)] = Num(1)
             /\ chain = "main" =>
                   /\ steps["init"] # <<>>
                   /\ Len(out["init"].step) = Len(steps["init"])
                   /\ out["init"].finalstep = Len(steps["init"])
                   /\ wsp.initmvn = PrefitPosterior
                   /\ \A i \in DOMAIN steps["main"] :
                         steps["main"][i].options["data"][2].name = "asldata"
                   /\ steps["main"] # <<>> =>
                         /\ steps["main"][1].kind = "FabberStep"
                         /\ CONTINUE \in DOMAIN steps["main"][1].options
                         /\ steps["main"][1].options[CONTINUE] = PrefitPosterior
        ELSE /\ chain = "main"
             /\ steps["init"] = <<>>
             /\ out["init"] = [step |-> <<>>, finalstep |-> 0]

\* the first step of the full-data run has run after a pre-fit chain of
\* several steps, on a workspace whose caller supplied another posterior
C2_Witness ==
    /\ prefit
    /\ MaxOf(requested.asldata[2].rpts) > 1
    /\ requested.initmvn = CallerMvn
    /\ Len(steps["init"]) >= 2
    /\ chain = "main"
    /\ Len(out["main"].step) >= 1

\* is the option k of the configuration options enabled
Enabled(options, k) == Truthy(Get(options, k))

\* C3: on data with a single inversion time, no planned step of the pre-fit
\* or of the main run has arterial inference or bolus duration inference
\* enabled, whatever the caller requested.
C3_SingleTiDisablesArtAndTau ==
    ntis(requested.asldata[2]) = 1 =>
        \A c \in Chains : \A i \in DOMAIN steps[c] :
            /\ ~Enabled(steps[c][i].options, "inferart")
            /\ ~Enabled(steps[c][i].options, "infertau")
            /\ ~Enabled(steps[c][i].options, "incart")
            /\ ~Enabled(steps[c][i].options, "inctau")

\* single inversion time data with both inferences requested, planned for
\* the pre-fit and for the main run
C3_Witness ==
    /\ ntis(requested.asldata[2]) = 1
    /\ requested.inferart = True
    /\ requested.infertau = True
    /\ steps["init"] # <<>>
    /\ steps["main"] # <<>>

(***************************************************************************)
(* Properties of the planner                                               *)
(***************************************************************************)
\* the plan that the call of basil_steps returned
ThePlan == steps["main"]

\* the free-form options of the call
ReqOptions == extra_options(requested)

\* what the caller asked for
ReqDisp == "disp" \in DOMAIN ReqOptions /\ ReqOptions["disp"] # Str("none")
ReqExch == "exch" \in DOMAIN ReqOptions /\ ReqOptions["exch"] # Str("mix")
ReqBothMaps == requested.pgm # None /\ requested.pwm # None
ReqOneMap == (requested.pgm # None) # (requested.pwm # None)
ReqNoMap == requested.pgm = None /\ requested.pwm = None
ReqSomeInference ==
    \/ \E f \in {"infertiss", "inferart", "infertau", "infert1", "inferpc"} : Truthy(requested[f])
    \/ ReqDisp
    \/ ReqExch

\* the call raises one of the partial volume configuration errors
ReqPvError == ReqOneMap \/ (ReqBothMaps /\ ~Truthy(requested.infertiss))

\* the inference flags of the engine that the caller's request enables
ReqInferFlags ==
    {f \in {"infertiss", "inferart", "infertau", "infert1", "inferpc"} : Truthy(requested[f])}
    \cup (IF ReqDisp THEN {"inferdisp"} ELSE {})
    \cup (IF ReqExch THEN {"inferexch"} ELSE {})

InferKeys == {"infertiss", "inferart", "infertau", "inferdisp", "inferexch", "inferpc", "infert1"}

\* the inference flags enabled in a configuration
InferFlags(options) == {k \in InferKeys : Enabled(options, k)}

PriorParams == {"T_1", "ftiss", "fblood", "pvgm", "pvwm", "fwm"}

\* does the configuration declare a prior of the given type for param
HasPrior(options, param, type) ==
    \E i \in 1..Cardinality(PriorParams) :
        /\ PriorKey(i) \in DOMAIN options
        /\ options[PriorKey(i)] = Str(param)
        /\ Get(options, PriorKey(i) \o "_type") = Str(type)

\* is the step an engine step carrying the spatial overlay
IsSpatialStep(step) ==
    /\ step.kind = "FabberStep"
    /\ step.options["method"] = Str("spatialvb")
    /\ step.options["convergence"] = Str("maxiters")
    /\ step.options["param-spatial-priors"] = Str("N+")
    /\ "max-trials" \notin DOMAIN step.options

\* does the configuration carry the partial volume setup
HasPvSetup(options) ==
    /\ Get(options, "pvcorr") = True
    /\ HasPrior(options, "pvgm", "I")
    /\ HasPrior(options, "pvwm", "I")
    /\ HasPrior(options, "fwm", "M")

\* C4: in single-step mode, for every combination of flags that enables at
\* least one inference (and raises no partial volume configuration error), the
\* plan is exactly one engine step; its configuration enables every enabled
\* inference, carries the spatial overlay when spatial is active and the
\* partial volume setup when partial volume correction is active; there is no
\* intermediate step and no PVC initialisation step.
C4_OnestepPlansOneCombinedStep ==
    /\ pc # "start"
    /\ requested.asldata # None
    /\ Truthy(requested.onestep)
    /\ ReqSomeInference
    /\ ~ReqPvError
    => /\ pc = "planned"
       /\ Len(ThePlan) = 1
       /\ ThePlan[1].kind = "FabberStep"
       /\ InferFlags(ThePlan[1].options) = ReqInferFlags
       /\ \A f \in ReqInferFlags : ThePlan[1].options[f] = True
       /\ Truthy(requested.inferbat) => ThePlan[1].options["inferbat"] = True
       /\ IsSpatialStep(ThePlan[1]) <=> (Truthy(requested.spatial) \/ ReqBothMaps)
       /\ IsSpatialStep(ThePlan[1]) /\ Truthy(requested.infertiss) =>
             HasPrior(ThePlan[1].options, "ftiss", "M")
       /\ IsSpatialStep(ThePlan[1]) /\ Truthy(requested.inferart) =>
             HasPrior(ThePlan[1].options, "fblood", "A")
       /\ HasPvSetup(ThePlan[1].options) <=> ReqBothMaps
       /\ \A i \in DOMAIN ThePlan : ThePlan[i].kind # "PvcInitStep"

\* a single-step plan with five inferences, spatial and partial volume
\* correction requested
C4_Witness ==
    /\ pc = "planned"
    /\ Truthy(requested.onestep)
    /\ ReqInferFlags = {"infertiss", "inferart", "infertau", "infert1", "inferpc"}
    /\ ReqBothMaps
    /\ Len(ThePlan) = 1

FeatureOrder == <<"tissue", "arterial", "tau", "ext", "t1", "pvc", "spatial">>

\* is the feature enabled by the caller's request
ReqFeature(f) ==
    CASE f = "tissue" -> Truthy(requested.infertiss)
      [] f = "arterial" -> Truthy(requested.inferart)
      [] f = "tau" -> Truthy(requested.infertau)
      [] f = "ext" -> ReqDisp \/ ReqExch \/ Truthy(requested.inferpc)
      [] f = "t1" -> Truthy(requested.infert1)
      [] f = "pvc" -> ReqBothMaps
      [] f = "spatial" -> Truthy(requested.spatial) \/ ReqBothMaps

\* the inference flags that belong to a feature
FlagsOfFeature(f) ==
    CASE f = "tissue" -> {"infertiss"}
      [] f = "arterial" -> {"inferart"}
      [] f = "tau" -> {"infertau"}
      [] f = "ext" -> ReqInferFlags \cap {"inferdisp", "inferexch", "inferpc"}
      [] f = "t1" -> {"infert1"}
      [] f = "pvc" -> {}
      [] f = "spatial" -> {}

\* the enabled features in the fixed order
ExpectedOrder == SelectSeq(FeatureOrder, ReqFeature)

\* the inference flags enabled in the engine steps before step i
FlagsBefore(plan, i) ==
    UNION {InferFlags(plan[j].options) : j \in {x \in 1..(i - 1) : plan[x].kind = "FabberStep"}}

\* C5: in multi-step mode the plan has exactly one step per enabled feature
\* in the order tissue, arterial, bolus duration, model extensions, T1, PVC
\* initialisation, spatial, none for a disabled feature; the step of a
\* feature is the first step with the inference of the feature enabled, and
\* the enabled inference flags of an engine step contain those of every
\* earlier engine step.
C5_MultiStepOrder ==
    pc = "planned" /\ ~Truthy(requested.onestep) =>
        /\ Len(ThePlan) = Len(ExpectedOrder)
        /\ \A i \in DOMAIN ThePlan :
              LET f == ExpectedOrder[i]
                  step == ThePlan[i]
              IN /\ f = "pvc" => step.kind = "PvcInitStep"
                 /\ f = "spatial" =>
                       /\ IsSpatialStep(step)
                       /\ InferFlags(step.options) = FlagsBefore(ThePlan, i)
                 /\ f \notin {"pvc", "spatial"} =>
                       /\ step.kind = "FabberStep"
                       /\ step.options["method"] = Str("vb")
                       /\ FlagsOfFeature(f) # {}
                       /\ InferFlags(step.options) = FlagsBefore(ThePlan, i) \cup FlagsOfFeature(f)
                       /\ FlagsOfFeature(f) \cap FlagsBefore(ThePlan, i) = {}
                 /\ step.kind = "FabberStep" =>
                       /\ FlagsBefore(ThePlan, i) \subseteq InferFlags(step.options)
                       /\ InferFlags(step.options) \subseteq ReqInferFlags

\* a multi-step plan with all seven features
C5_Witness ==
    /\ pc = "planned"
    /\ ~Truthy(requested.onestep)
    /\ ExpectedOrder = FeatureOrder
    /\ Len(ThePlan) = Len(FeatureOrder)

\* the engine steps of the plan that carry the spatial overlay
SpatialSteps(plan) == {i \in DOMAIN plan : IsSpatialStep(plan[i])}

\* C6: exactly one partial volume map raises the configuration error; with
\* neither map the planner raises no partial volume error and plans without
\* partial volume correction; with both maps and tissue inference the plan
\* has partial volume correction enabled and ends with a spatial step of
\* iteration cap 200, also when spatial was not requested.
C6_PartialVolumeMaps ==
    pc # "start" /\ requested.asldata # None =>
        /\ ReqOneMap => pc = "error" /\ err = ErrOneMap /\ ThePlan = <<>>
        /\ ReqNoMap =>
              /\ err \notin {ErrOneMap, ErrArtOnly}
              /\ \A i \in DOMAIN ThePlan :
                    /\ ThePlan[i].kind = "FabberStep"
                    /\ "pvcorr" \notin DOMAIN ThePlan[i].options
                    /\ ~HasPvSetup(ThePlan[i].options)
                    /\ IsSpatialStep(ThePlan[i]) => Truthy(requested.spatial)
        /\ ReqBothMaps /\ Truthy(requested.infertiss) =>
              /\ pc = "planned"
              /\ SpatialSteps(ThePlan) = {Len(ThePlan)}
              /\ HasPvSetup(ThePlan[Len(ThePlan)].options)
              /\ ThePlan[Len(ThePlan)].options["max-iterations"] = Num(200)

\* both maps with tissue inference, spatial not requested and the iteration
\* cap overridden by the caller
C6_Witness ==
    /\ pc = "planned"
    /\ ReqBothMaps
    /\ requested.infertiss = True
    /\ requested.spatial = False
    /\ "max-iterations" \in DOMAIN ReqOptions
    /\ Len(ThePlan) >= 3

\* C7: partial volume correction requested (both maps) with tissue inference
\* disabled raises the configuration error and returns no plan, whatever the
\* other flags.
C7_PvcNeedsTissue ==
    pc # "start" /\ requested.asldata # None /\ ReqBothMaps /\ ~Truthy(requested.infertiss) =>
        /\ pc = "error"
        /\ err = ErrArtOnly
        /\ ThePlan = <<>>

\* both maps, arterial inference only
C7_Witness ==
    /\ pc = "error"
    /\ ReqBothMaps
    /\ requested.infertiss = False
    /\ requested.inferart = True
    /\ err = ErrArtOnly

\* no inference flag enabled, no partial volume map, spatial off
ReqNothing == ~ReqSomeInference /\ ReqNoMap /\ ~Truthy(requested.spatial)

\* C8: a configuration with no inference flag enabled, no partial volume map
\* and spatial off raises the error of the empty plan (ValueError 'No steps
\* were generated'), in multi-step mode and in single-step mode.
C8_EmptyPlanError ==
    pc # "start" /\ requested.asldata # None /\ ReqNothing =>
        pc = "error" /\ err = ErrNoSteps

\* C9: for every key of the free-form override dictionary, the configuration
\* of every planned engine step, the spatial step included, holds the value
\* of the override.
C9_OverridesWin ==
    pc = "planned" =>
        \A i \in DOMAIN ThePlan : ThePlan[i].kind = "FabberStep" =>
            \A k \in DOMAIN ReqOptions :
                /\ k \in DOMAIN ThePlan[i].options
                /\ ThePlan[i].options[k] = ReqOptions[k]

\* the PVC initialisation steps of the plan
PvcInitSteps(plan) == {i \in DOMAIN plan : plan[i].kind = "PvcInitStep"}

\* C10: in a returned plan a PVC initialisation step occurs at most once, is
\* not the first step, directly follows an engine step that infers the tissue
\* component and is directly followed by the spatial engine step.
C10_PvcInitPlacement ==
    pc = "planned" =>
        /\ Cardinality(PvcInitSteps(ThePlan)) <= 1
        /\ \A i \in PvcInitSteps(ThePlan) :
              /\ i > 1
              /\ ThePlan[i - 1].kind = "FabberStep"
              /\ ~IsSpatialStep(ThePlan[i - 1])
              /\ Enabled(ThePlan[i - 1].options, "infertiss")
              /\ Enabled(ThePlan[i - 1].options, "inctiss")
              /\ i < Len(ThePlan)
              /\ IsSpatialStep(ThePlan[i + 1])
              /\ i + 1 = Len(ThePlan)

\* a plan with a PVC initialisation step after several engine steps
C10_Witness ==
    /\ pc = "planned"
    /\ \E i \in PvcInitSteps(ThePlan) : i >= 3

\* the options that decide how an engine step converges
ConvergenceKeys == {"method", "convergence", "max-trials", "max-iterations"}

\* C11: when the caller overrides none of the convergence options (in
\* particular with no override at all), every spatial step has method
\* spatialvb, convergence maxiters, no max-trials and max-iterations 20 (200
\* with partial volume correction), and every other engine step has method
\* vb, convergence trialmode, max-trials 10 and max-iterations 20.
C11_ConvergenceSettings ==
    pc = "planned" /\ DOMAIN ReqOptions \cap ConvergenceKeys = {} =>
        \A i \in DOMAIN ThePlan : ThePlan[i].kind = "FabberStep" =>
            LET o == ThePlan[i].options
            IN IF o["method"] = Str("spatialvb")
               THEN /\ o["convergence"] = Str("maxiters")
                    /\ "max-trials" \notin DOMAIN o
                    /\ o["max-iterations"] = IF ReqBothMaps THEN Num(200) ELSE Num(20)
                    /\ i = Len(ThePlan)
               ELSE /\ o["method"] = Str("vb")
                    /\ o["convergence"] = Str("trialmode")
                    /\ o["max-trials"] = Num(10)
                    /\ o["max-iterations"] = Num(20)

\* a plan without any override that ends with a spatial step after VB steps
C11_Witness ==
    /\ pc = "planned"
    /\ ReqOptions = EmptyDict
    /\ Len(ThePlan) >= 3
    /\ ThePlan[1].options["method"] = Str("vb")
    /\ ThePlan[Len(ThePlan)].options["method"] = Str("spatialvb")

\* the values the acquisition parameters must have after basil resolved
\* them: the value the caller set, or the default of the mode
ExpectedParams ==
    [t1 |-> IF requested.t1 # None THEN requested.t1
            ELSE IF requested.wp = True THEN Num(165) ELSE Num(130),
     t1b |-> IF requested.t1b # None THEN requested.t1b ELSE Num(165),
     bat |-> IF requested.bat # None THEN requested.bat
             ELSE IF requested.wp = True THEN Num(0)
             ELSE IF requested.casl = True THEN Num(130) ELSE Num(70),
     tau |-> IF requested.tau # None THEN requested.tau ELSE Num(180)]

\* the workspace holds the resolved parameters, and so does every planned
\* step of the kinds given
ParamsResolvedIn(kinds) ==
    chain # "none" =>
        /\ \A k \in DOMAIN ExpectedParams : wsp[k] = ExpectedParams[k]
        /\ \A c \in Chains : \A i \in DOMAIN steps[c] :
              steps[c][i].kind \in kinds =>
                 \A k \in DOMAIN ExpectedParams :
                    /\ k \in DOMAIN steps[c][i].options
                    /\ steps[c][i].options[k] = ExpectedParams[k]

\* C12 as stated: tissue T1 is 1.65 in white paper mode and 1.3 otherwise,
\* arrival time 0 in white paper mode, else 1.3 for continuous and 0.7 for
\* pulsed labelling, bolus duration 1.8, blood T1 1.65, a value set by the
\* caller is kept, and the resolved values are in the configuration of every
\* planned step.  (Violated: the PVC initialisation step has none of them.)
C12_DefaultsInEveryStep == ParamsResolvedIn({"FabberStep", "PvcInitStep"})

\* C12, amended: the same defaults, and the resolved values are in the
\* configuration of every planned engine step
C12_DefaultsInEngineSteps == ParamsResolvedIn({"FabberStep"})

\* a finished white paper call with a tissue T1 set by the caller and the
\* arrival time left to its default, whose plan has a PVC initialisation step
C12_Witness ==
    /\ pc = "done"
    /\ requested.wp = True /\ requested.t1 = Num(120) /\ requested.bat = None
    /\ wsp.bat = Num(0)
    /\ \E i \in DOMAIN ThePlan : ThePlan[i].kind = "PvcInitStep"
    /\ ThePlan[1].options["t1"] = Num(120)

\* the calls of run made for the steps of chain c, in order
LogOf(c) == SelectSeq(log, LAMBDA e : e.chain = c)

\* C13: the steps of a chain run in list order, each once and none before
\* its predecessor has returned; every key of the result of step i is
\* attached to the output 'step i'; once the last step has returned,
\* finalstep is the output of the last step and its finalMVN is the
\* posterior that step returned.
C13_StepsRunInOrder ==
    \A c \in Chains :
        /\ Len(LogOf(c)) <= Len(steps[c])
        /\ \A j \in DOMAIN LogOf(c) :
              /\ LogOf(c)[j].step = j
              /\ j < Len(LogOf(c)) => ~LogOf(c)[j].raised
              /\ ~LogOf(c)[j].raised =>
                    /\ j \in DOMAIN out[c].step
                    /\ DOMAIN out[c].step[j] = DOMAIN LogOf(c)[j].result[2]
                    /\ \A key \in DOMAIN out[c].step[j] :
                          out[c].step[j][key] = LogOf(c)[j].result[2][key]
        /\ out[c].finalstep # 0 =>
              /\ out[c].finalstep = Len(steps[c])
              /\ Len(LogOf(c)) = Len(steps[c])
              /\ ~LogOf(c)[Len(steps[c])].raised
              /\ out[c].step[out[c].finalstep]["finalMVN"]
                    = LogOf(c)[Len(steps[c])].result[2]["finalMVN"]

\* a finished call whose main chain had at least three steps, the first of
\* which returned a perfusion map besides its posterior
C13_Witness ==
    /\ pc = "done"
    /\ Len(ThePlan) >= 3
    /\ out["main"].finalstep = Len(ThePlan)
    /\ "mean_ftiss" \in DOMAIN out["main"].step[1]

\* some call of run has raised
SomeStepRaised == \E j \in DOMAIN log : log[j].raised

\* C14: when step k of a chain raises, the call ends with that error, no
\* step runs afterwards, finalstep of the chain is not set and the outputs of
\* steps 1..k-1 are in place; when the chain is the initial fit, the main
\* chain is never planned or run and wsp.initmvn is the one the caller set.
C14_FailureEndsTheCall ==
    SomeStepRaised =>
        LET k == log[Len(log)].step
            c == log[Len(log)].chain
        IN /\ \A j \in DOMAIN log : log[j].raised => j = Len(log)
           /\ pc = "error"
           /\ err \in {ErrFabber, ErrPrevOutput}
           /\ c = chain
           /\ Len(LogOf(c)) = k
           /\ out[c].finalstep = 0
           /\ Len(out[c].step) = k - 1
           /\ \A j \in 1..(k - 1) : out[c].step[j] = LogOf(c)[j].result[2]
           /\ c = "init" =>
                 /\ steps["main"] = <<>>
                 /\ LogOf("main") = <<>>
                 /\ out["main"] = NoOutput["main"]
                 /\ wsp.initmvn = requested.initmvn

\* the second or a later step of an initial fit has raised, in a call that
\* was given a posterior by the caller
C14_Witness ==
    /\ SomeStepRaised
    /\ chain = "init"
    /\ Len(log) >= 2
    /\ requested.initmvn = CallerMvn

\* every step of chain c has run and returned, and finalstep is set
ChainComplete(c) ==
    /\ Len(LogOf(c)) = Len(steps[c])
    /\ \A j \in DOMAIN LogOf(c) : ~LogOf(c)[j].raised
    /\ out[c].finalstep = Len(steps[c])
    /\ Len(steps[c]) > 0

\* C15: a call that ends without error has run the main chain once, on the
\* full data, with its output under 'main'; no step of the main chain runs
\* before every step of the initial fit (output under 'init') has returned;
\* with prefit false there is no initial fit, whatever the repeat counts.
C15_MainChainRunsOnce ==
    /\ pc = "done" =>
          /\ ChainComplete("main")
          /\ \A i \in DOMAIN steps["main"] :
                steps["main"][i].options["data"] = Data(diff(requested.asldata[2]))
    /\ \A j \in DOMAIN log :
          log[j].chain = "main" =>
             /\ \A h \in DOMAIN log : log[h].chain = "init" => h < j
             /\ LogOf("init") # <<>> => ChainComplete("init")
    /\ LogOf("init") # <<>> => prefit /\ MaxOf(requested.asldata[2].rpts) > 1
    /\ ~prefit => steps["init"] = <<>> /\ out["init"] = NoOutput["init"]

\* a finished call that ran an initial fit before the main chain
C15_Witness ==
    /\ pc = "done"
    /\ LogOf("init") # <<>>
    /\ LogOf("main") # <<>>

\* the calls of run of a PVC initialisation step that have returned
PvcInitRuns ==
    {j \in DOMAIN log : /\ ~log[j].raised
                        /\ steps[log[j].chain][log[j].step].kind = "PvcInitStep"}

\* max(G, 0.2)
MaxWithFloor(g) == IF RLess(g, Rat(2, 10)) THEN Rat(2, 10) ELSE g

\* C16: with P the perfusion of the previous step, G and W the grey and white
\* matter fractions of a voxel, the PVC initialisation step writes the grey
\* estimate (P - 0.4 P W) / max(G, 0.2) as the mean of ftiss and then 0.4
\* times it as the mean of fwm, both with variance 0.1, into the posterior of
\* the previous step, and returns a result that holds the posterior only;
\* P = 50, G = 0.6, W = 0.3 give 73.33 and 29.33.
C16_PvcInitEstimates ==
    \A j \in PvcInitRuns :
        LET result == log[j].result[2]
            mvn == result["finalMVN"]
            writes == MvnWrites(mvn)
            P == imgdata["mean_ftiss"]
            G == imgdata["pgm"]
            W == imgdata["pwm"]
        IN /\ DOMAIN result = {"finalMVN"}
           /\ j > 1 /\ MvnBase(mvn) = log[j - 1].result[2]["finalMVN"]
           /\ Len(writes) = 2
           /\ writes[1].param = "ftiss" /\ writes[2].param = "fwm"
           /\ REq(writes[1].var, Rat(1, 10)) /\ REq(writes[2].var, Rat(1, 10))
           /\ \A v \in DOMAIN P :
                 imgdata["mask"][v] = 1 =>
                    LET grey == writes[1].mean[v]
                        white == writes[2].mean[v]
                    IN /\ REq(RMul(grey, MaxWithFloor(G[v])),
                              RSub(P[v], RMul(RMul(Rat(4, 10), P[v]), W[v])))
                       /\ REq(white, RMul(Rat(4, 10), grey))
                       /\ (REq(P[v], Rat(50, 1)) /\ REq(G[v], Rat(6, 10)) /\ REq(W[v], Rat(3, 10))) =>
                             /\ ~RLess(grey, Rat(7333, 100)) /\ RLess(grey, Rat(7334, 100))
                             /\ ~RLess(white, Rat(2933, 100)) /\ RLess(white, Rat(2934, 100))

\* a PVC initialisation has returned for two voxels of the mask, one with
\* P = 50, G = 0.6, W = 0.3 and one whose grey matter fraction is at the
\* floor of 0.2 and whose grey estimate is 220
C16_Witness ==
    /\ PvcInitRuns # {}
    /\ Len(imgdata["mask"]) = 2
    /\ imgdata["mask"] = <<1, 1>>
    /\ imgdata["mean_ftiss"] = <<Rat(50, 1), Rat(50, 1)>>
    /\ imgdata["pwm"] = <<Rat(30, 100), Rat(30, 100)>>
    /\ REq(imgdata["pgm"][1], Rat(6, 10))
    /\ REq(imgdata["pgm"][2], Rat(2, 10))
    /\ \E j \in PvcInitRuns :
          REq(MvnWrites(log[j].result[2]["finalMVN"])[1].mean[2], Rat(220, 1))

\* the iteration cap, the trial cap and the single step that a value of
\* the fast option stands for
CapsOfFast(fast) ==
    CASE fast = Num(0) -> [iterations |-> Num(20), trials |-> Num(10), single |-> FALSE]
      [] fast = Num(1) -> [iterations |-> Num(5), trials |-> Num(2), single |-> FALSE]
      [] fast = Num(2) -> [iterations |-> Num(10), trials |-> Num(5), single |-> TRUE]

\* the plans made so far
Planned == {c \in Chains : steps[c] # <<>>}

\* C17: the fast option selects the caps of the planned steps: 0 gives
\* max-iterations 20 and max-trials 10, 1 gives 5 and 2, 2 gives one single
\* step with 10 and 5, and any other value ends the run with an error before
\* anything is planned.  (Violated: the plans always hold 20 and 10.)
C17_FastSelectsCaps ==
    requested.optfile = None =>
        IF requested.fast \in {Num(0), Num(1), Num(2)}
        THEN /\ err # ErrFast
             /\ \A c \in Planned :
                   /\ CapsOfFast(requested.fast).single <=> Len(steps[c]) = 1 /\ Truthy(wsp.onestep)
                   /\ \A i \in DOMAIN steps[c] :
                         (steps[c][i].kind = "FabberStep"
                             /\ steps[c][i].options["method"] = Str("vb")) =>
                            /\ steps[c][i].options["max-iterations"] = CapsOfFast(requested.fast).iterations
                            /\ steps[c][i].options["max-trials"] = CapsOfFast(requested.fast).trials
        ELSE /\ Planned = {}
             /\ pc \in {"main", "error"}
             /\ pc = "error" => err = ErrFast

\* what a line of an options file asks for: the engine option and its value
LineMeaning(line) ==
    CASE line = LineMaxIterations -> <<"max-iterations", Str("50")>>
      [] line = LineDisp -> <<"disp", Str("gamma")>>
      [] line = LineExch -> <<"exch", Str("2cpt")>>
      [] line = LineBare -> <<"allow-bad-voxels", True>>
      [] line = LineEmpty -> <<>>

\* the last value an options file gives to each engine option it names
FileOverrides(file) ==
    LET named == {i \in DOMAIN file[2] : LineMeaning(file[2][i]) # <<>>}
        last(k) == CHOOSE i \in named :
                      /\ LineMeaning(file[2][i])[1] = k
                      /\ \A j \in named : LineMeaning(file[2][j])[1] = k => j <= i
    IN [k \in {LineMeaning(file[2][i])[1] : i \in named} |-> LineMeaning(file[2][last(k)])[2]]

\* C18: every line '--key=value' or '--key' of the options file reaches the
\* planned engine steps: their configuration holds the value under the
\* engine option named key, in place of the default of the base
\* configuration.  (Violated: --max-iterations=50 leaves max-iterations 20.)
C18_OptfileOverrides ==
    requested.optfile # None =>
        \A c \in Planned : \A i \in DOMAIN steps[c] :
            (steps[c][i].kind = "FabberStep" /\ steps[c][i].options["method"] = Str("vb")) =>
                \A k \in DOMAIN FileOverrides(requested.optfile) :
                    /\ k \in DOMAIN steps[c][i].options
                    /\ steps[c][i].options[k] = FileOverrides(requested.optfile)[k]

\* the prior indices declared in a configuration
PriorIndices(options) ==
    {i \in 1..(Cardinality(PriorParams) + 1) : PriorKey(i) \in DOMAIN options}

\* the parameters with a prior in a configuration
PriorsDeclared(options) == {options[PriorKey(i)][2] : i \in PriorIndices(options)}

\* the parameters the request gives a prior in the base configuration and
\* in the spatial overlay
ReqBasePriors ==
    (IF Truthy(requested.t1im) THEN {"T_1"} ELSE {})
    \cup (IF ReqBothMaps THEN {"pvgm", "pvwm", "fwm"} ELSE {})
ReqSpatialPriors ==
    (IF Truthy(requested.infertiss) THEN {"ftiss"} ELSE {})
    \cup (IF Truthy(requested.inferart) THEN {"fblood"} ELSE {})

\* C19: in the configuration of every planned step the prior indices are
\* 1..n without a gap, each index declares one parameter and no parameter is
\* declared under two indices; a spatial step declares every prior of the
\* base configuration and of the spatial overlay, so the merge of the overlay
\* overwrote none; an index declares the same parameter in every step of the
\* plan that has it.
C19_PriorIndices ==
    pc = "planned" =>
        \A i \in DOMAIN ThePlan :
            LET o == ThePlan[i].options
            IN /\ PriorIndices(o) = 1..Cardinality(PriorIndices(o))
               /\ \A a, b \in PriorIndices(o) : o[PriorKey(a)] = o[PriorKey(b)] => a = b
               /\ \A a \in PriorIndices(o) : o[PriorKey(a)][2] \in PriorParams
               /\ IsSpatialStep(ThePlan[i]) =>
                     /\ PriorsDeclared(o) = ReqBasePriors \cup ReqSpatialPriors
                     /\ Cardinality(PriorIndices(o)) = Cardinality(ReqBasePriors \cup ReqSpatialPriors)
               /\ \A j \in 1..(i - 1) :
                     \A a \in PriorIndices(ThePlan[j].options) \cap PriorIndices(o) :
                        o[PriorKey(a)] = ThePlan[j].options[PriorKey(a)]

\* a plan whose spatial step declares six priors, after VB steps that
\* declare the T1 image prior only
C19_Witness ==
    /\ pc = "planned"
    /\ Len(ThePlan) >= 3
    /\ PriorIndices(ThePlan[1].options) = {1}
    /\ Cardinality(PriorIndices(ThePlan[Len(ThePlan)].options)) = 6

\* the options in which the plans of the two chains may differ: the data,
\* the repeat counts and the posterior to continue from
ChainKeys == {"data", CONTINUE} \cup {"rpt" \o ToString(i) : i \in 1..(MaxTis + 1)}

\* a configuration without the options of ChainKeys
SharedOptions(options) == [k \in DOMAIN options \ ChainKeys |-> options[k]]

\* C20: when a call plans both chains, the plan of the initial fit and the
\* plan of the main chain have the same number of steps, of the same kinds
\* and descriptions in the same order, and the configurations of
\* corresponding steps differ at most in the data, the repeat counts and the
\* posterior to continue from.
C20_ChainsPlannedAlike ==
    steps["init"] # <<>> /\ steps["main"] # <<>> =>
        /\ Len(steps["init"]) = Len(steps["main"])
        /\ \A i \in DOMAIN steps["init"] :
              /\ steps["init"][i].kind = steps["main"][i].kind
              /\ steps["init"][i].desc = steps["main"][i].desc
              /\ SharedOptions(steps["init"][i].options) = SharedOptions(steps["main"][i].options)
              /\ steps["init"][i].options["data"] # steps["main"][i].options["data"]

\* both chains planned with at least three steps each, the main chain done
C20_Witness ==
    /\ pc = "done"
    /\ Len(steps["init"]) >= 3
    /\ Len(steps["main"]) >= 3
    /\ steps["main"][1].options["rpt1"] # steps["init"][1].options["rpt1"]

\* C24: for every combination of flags the planner either raises an error
\* (and returns nothing) or returns a plan that is not empty and whose last
\* step is an engine step, never a PVC initialisation step.
C24_PlanEndsWithEngineStep ==
    pc # "start" =>
        \/ pc = "error" /\ err # NoError /\ ThePlan = <<>>
        \/ /\ pc = "planned" /\ err = NoError
           /\ Len(ThePlan) > 0
           /\ ThePlan[Len(ThePlan)].kind = "FabberStep"

\* a plan with a PVC initialisation step for a request without spatial
\* smoothing
C24_Witness ==
    /\ pc = "planned"
    /\ requested.spatial = False
    /\ \E i \in DOMAIN ThePlan : ThePlan[i].kind = "PvcInitStep"

\* the option keys of step i of the plan that step j of the plan lacks
KeysLost(i, j) == DOMAIN ThePlan[i].options \ DOMAIN ThePlan[j].options

\* the engine steps of the plan
EngineSteps == {i \in DOMAIN ThePlan : ThePlan[i].kind = "FabberStep"}

\* C25 as stated: every option key of a planned step is also a key of every
\* later engine step of the plan.  (Violated: the spatial step has no
\* max-trials, and no engine step has the pgm and pwm keys of the PVC
\* initialisation step.)
C25_KeysNeverRemoved ==
    pc = "planned" =>
        \A i \in DOMAIN ThePlan : \A j \in EngineSteps : i < j => KeysLost(i, j) = {}

\* C25, amended: every option key of a planned engine step, other than
\* max-trials, is also a key of every later engine step of the plan;
\* max-trials is a key of every engine step but the spatial one.
C25_KeysKeptButMaxTrials ==
    pc = "planned" =>
        /\ \A i, j \in EngineSteps : i < j => KeysLost(i, j) \subseteq {"max-trials"}
        /\ \A i \in EngineSteps :
              "max-trials" \in DOMAIN ThePlan[i].options <=> ~IsSpatialStep(ThePlan[i])

\* a plan of at least four steps with T1 inference, whose last step is spatial
C25_Witness ==
    /\ pc = "planned"
    /\ Len(ThePlan) >= 4
    /\ requested.infert1 = True
    /\ IsSpatialStep(ThePlan[Len(ThePlan)])
    /\ KeysLost(1, Len(ThePlan)) = {"max-trials"}

\* the plan of the request in single-step mode
SingleStepPlan ==
    basil_steps([requested EXCEPT !.onestep = True], requested.asldata, ReqOptions)

\* C26: for every combination of flags for which both modes plan at least
\* one step, the configuration of the step planned in single-step mode is the
\* configuration of the last step planned in multi-step mode.
C26_SingleStepIsLastStep ==
    pc = "planned" /\ ~Truthy(requested.onestep) =>
        \A single \in {SingleStepPlan} :
            single.err = NoError =>
                /\ Len(single.steps) = 1
                /\ single.steps[1].kind = "FabberStep"
                /\ single.steps[1].options = ThePlan[Len(ThePlan)].options

\* a multi-step plan of all seven features whose request also plans in
\* single-step mode
C26_Witness ==
    /\ pc = "planned"
    /\ ~Truthy(requested.onestep)
    /\ Len(ThePlan) = Len(FeatureOrder)
    /\ SingleStepPlan.err = NoError

\* the inference options with the inclusion flag that goes with each
InclusionOf ==
    [infertiss |-> "inctiss", inferart |-> "incart", infertau |-> "inctau",
     infert1 |-> "inct1", inferpc |-> "incpc", inferbat |-> "incbat", pvcorr |-> "incpve"]

\* the options of InclusionOf that a configuration enables without enabling
\* the inclusion flag
Unaccompanied(options) ==
    {k \in DOMAIN InclusionOf :
        Truthy(Get(options, k)) /\ ~Truthy(Get(options, InclusionOf[k]))}

\* C28: in the configuration of every planned engine step each enabled
\* inference flag has its inclusion flag: infertiss inctiss, inferart incart,
\* infertau inctau, infert1 inct1, inferpc incpc, inferbat incbat, and pvcorr
\* incpve.  (Violated: pvcorr is planned from the two maps, incpve from
\* wsp.pvcorr.)
C28_InclusionFlags ==
    pc = "planned" => \A i \in EngineSteps : Unaccompanied(ThePlan[i].options) = {}

\* C29: the planner leaves every attribute of the workspace as it was
\* before the call, whether it returns a plan or raises.  (Violated: with
\* both partial volume maps it sets wsp.spatial.)
C29_PlannerLeavesWorkspace ==
    pc \in {"planned", "error"} => \A a \in DOMAIN requested : wsp[a] = requested[a]

\* two configurations are the same but for the posterior to continue from
SameButContinue(o1, o2) ==
    /\ DOMAIN o1 \ {CONTINUE} = DOMAIN o2 \ {CONTINUE}
    /\ \A k \in DOMAIN o1 \ {CONTINUE} : o1[k] = o2[k]

\* what the planner did after a VB step was created does not show in the
\* step: it has the trial count and none of the spatial overlay
VbStepsUntouched(plan) ==
    \A i \in DOMAIN plan :
        (plan[i].kind = "FabberStep" /\ i < Len(plan)) =>
            /\ plan[i].options["method"] = Str("vb")
            /\ "max-trials" \in DOMAIN plan[i].options
            /\ "param-spatial-priors" \notin DOMAIN plan[i].options
            /\ "pvcorr" \notin DOMAIN plan[i].options

\* C23: every step keeps the configuration it was created with: what the
\* planner sets or removes afterwards does not show in it, and running step
\* k of a chain changes the configuration of no step but step k, and of
\* step k nothing but the posterior to continue from.
C23_StepsKeepTheirSnapshot ==
    [][\A c \in Chains :
          /\ VbStepsUntouched(steps'[c])
          /\ steps[c] # <<>> =>
                /\ Len(steps'[c]) = Len(steps[c])
                /\ \A i \in DOMAIN steps[c] :
                      /\ steps'[c][i].kind = steps[c][i].kind
                      /\ steps'[c][i].desc = steps[c][i].desc
                      /\ SameButContinue(steps'[c][i].options, steps[c][i].options)
                      /\ steps'[c][i] # steps[c][i] =>
                            /\ c = chain /\ pc = "fit" /\ i = idx + 1
                            /\ steps[c][i].kind = "FabberStep"
                            /\ prev_result # None
                            /\ steps'[c][i].options[CONTINUE] = prev_result[2]["finalMVN"]]_vars

\* the third step of a main chain has run after an initial fit, and the
\* first step of the chain continues from another posterior than the third
C23_Witness ==
    /\ chain = "main" /\ idx >= 3
    /\ steps["init"] # <<>>
    /\ steps["main"][3].kind = "FabberStep"
    /\ CONTINUE \in DOMAIN steps["main"][1].options
    /\ steps["main"][1].options[CONTINUE] # steps["main"][3].options[CONTINUE]

\* C22: running the PVC initialisation step leaves the grey matter map as
\* it was for its other holders, the workspace (wsp.pgm) and the image prior
\* of the spatial step that follows: no step changes the array of the map.
\* (Violated: the step raises the voxels below 0.2 in the array of the map
\* itself.)
C22_PgmUnchangedByPvcInit ==
    [][\A c \in Chains : \A i \in DOMAIN steps[c] :
          steps[c][i].kind = "PvcInitStep" =>
             /\ DataOf(imgdata', wsp.pgm) = DataOf(imgdata, wsp.pgm)
             /\ DataOf(imgdata', steps[c][i].options["pgm"])
                   = DataOf(imgdata, steps[c][i].options["pgm"])]_vars

\* C21: the second call of basil made by model_paired when wsp.pvcorr is
\* set, made without an initial fit after the first call has finished, is
\* planned with partial volume correction: the pvcorr option, the image
\* priors of the grey and white matter fractions, the spatial prior of the
\* white matter perfusion, and a last step that is spatial with iteration cap
\* 200.  (Violated: the maps are handed over as engine options, and the
\* planner looks for them in wsp.pgm and wsp.pwm.)
C21_SecondRunIsPvCorrected ==
    paired.run = 2 /\ pc # "start" =>
        /\ Truthy(requested.pvcorr)
        /\ ~prefit /\ steps["init"] = <<>>
        /\ paired.basil.out["main"].finalstep = Len(paired.basil.steps["main"])
        /\ ThePlan # <<>>
        /\ HasPvSetup(ThePlan[Len(ThePlan)].options)
        /\ IsSpatialStep(ThePlan[Len(ThePlan)])
        /\ ThePlan[Len(ThePlan)].options["max-iterations"] = Num(200)

\* C27: a call of basil in which no initial fit runs starts its first step
\* from the posterior the caller supplied as initmvn, and from none when the
\* caller supplied none, also when basil has been called on the workspace
\* before.  (Violated: the second call of model_paired continues from the
\* posterior of the initial fit of the first call.)
C27_FirstStepStartsFromCallerMvn ==
    steps["init"] = <<>> /\ ThePlan # <<>> =>
        Get(ThePlan[1].options, CONTINUE) = requested.initmvn

====
